---- MODULE Spec2Model ----
(***************************************************************************)
(* Model of executor.py: the entry point (argument validation, terminal    *)
(* wrapper) and tui_main, the loop that runs one templated command per     *)
(* object, streams its output, polls the keyboard and asks on failure.     *)
(* Strings are sequences of one-character strings.  Indices are 1-based:   *)
(* the model's i is the source's i + 1.                                    *)
(* Environment: the terminal is large enough for every window (no          *)
(* curses.error) and no SIGINT arrives; both end the program through the   *)
(* outermost handlers of the entry point and are outside this model.       *)
(***************************************************************************)
EXTENDS Integers, Sequences, FiniteSets, TLC

\* ------------------------------------------------------------------ bounds
MaxObjects == 2      \* raw lines in the object list file
MaxLines == 2        \* output lines one child emits before end-of-stream
MaxKeys == 1         \* keypresses waiting in the terminal input queue
MaxRenderObjects == 3   \* objects in a list of the rendering specification
MaxLabelLen == 6     \* characters of the longest object label drawn

\* --------------------------------------------------------------- constants
PLACEHOLDER == <<"$", "o", "b", "j", "e", "c", "t">>
STATUS_PENDING == "Pending"
STATUS_SUCCESS == "Success"
STATUS_FAIL == "Failed"

MSG_ABORT == "Execution aborted by user."
MSG_EXIT == "Execution aborted due to failure."
MSG_DONE == "Execution finished successfully."
MSG_LIST == "Error: Cannot read or parse object list file."
MSG_NOFILE == "Error: The file does not exist."
MSG_NOPLACEHOLDER == "Error: The command string must include the placeholder."
NoMessage == "none"

\* Keys the operator can press; "x" stands for any key other than q, Q, e, E.
Keys == {"q", "Q", "e", "E", "x"}
NoKey == "ERR"       \* what a non-blocking getch returns on an empty queue

\* Exit codes a reaped child can report (negative: killed by a signal).
ExitCodes == {0, 1, -15}
NoCode == {}         \* returncode before wait(): None; afterwards {code}

\* Terminal size the layout step observes in the run model (RenderSpec below
\* varies the size from one iteration to the next).
Heights == {4}
Widths == {40}

\* Output lines of a child.  An ordinary line is named after its position in
\* the child's output; "nul" is a line holding a NUL character, which curses'
\* addstr refuses with ValueError.
LineNames == <<"l1", "l2", "l3", "l4">>
Lines == {LineNames[k] : k \in 1..Len(LineNames)} \cup {"nul"}
ErrorLine == "--- SCRIPT ERROR ---"

\* ------------------------------------------------------------ input strings
RawLine_ab == <<" ", "a", " ", "b", " ">>
RawLine_blank == <<" ">>
RawLines == {RawLine_ab, RawLine_blank}

Cmd_ok == <<"t", " ">> \o PLACEHOLDER
Cmd_openquote == <<"t", " ", "\"">> \o PLACEHOLDER
Cmd_none == <<"t", " ", "$", "o">>
Commands == {Cmd_ok, Cmd_openquote, Cmd_none}

FileStates == {"missing", "unreadable", "ok"}

\* ------------------------------------------------------------ pure helpers
RECURSIVE LStrip(_)
LStrip(s) == IF s # <<>> /\ Head(s) = " " THEN LStrip(Tail(s)) ELSE s

RECURSIVE RStrip(_)
RStrip(s) ==
  IF s # <<>> /\ s[Len(s)] = " " THEN RStrip(SubSeq(s, 1, Len(s) - 1)) ELSE s

\* str.strip()
Strip(s) == RStrip(LStrip(s))

\* [line.strip() for line in f if line.strip()]
RECURSIVE ReadObjects(_)
ReadObjects(ls) ==
  IF ls = <<>> THEN <<>>
  ELSE IF Strip(Head(ls)) # <<>>
       THEN <<Strip(Head(ls))>> \o ReadObjects(Tail(ls))
       ELSE ReadObjects(Tail(ls))

\* sub in s
Contains(sub, s) ==
  \E k \in 0..(Len(s) - Len(sub)) : SubSeq(s, k + 1, k + Len(sub)) = sub

\* s.replace(old, new)
RECURSIVE Replace(_, _, _)
Replace(s, old, new) ==
  IF Len(s) < Len(old) THEN s
  ELSE IF SubSeq(s, 1, Len(old)) = old
       THEN new \o Replace(SubSeq(s, Len(old) + 1, Len(s)), old, new)
       ELSE <<Head(s)>> \o Replace(Tail(s), old, new)

\* Characters shlex.quote leaves alone (those of [\w@%+=:,./-] in use here).
SafeChars == {"a", "b", "c", "e", "j", "o", "t"}

\* shlex.quote(s)
ShlexQuote(s) ==
  IF s = <<>> THEN <<"'", "'">>
  ELSE IF \A k \in 1..Len(s) : s[k] \in SafeChars THEN s
  ELSE <<"'">> \o Replace(s, <<"'">>, <<"'", "\"", "'", "\"", "'">>) \o <<"'">>

\* shlex.split(s): the argument vector, or "ValueError" when the string ends
\* inside a quotation or after a lone escape character.  st is the lexer
\* state, tok the token under construction (has: whether one is open).
RECURSIVE ShlexScan(_, _, _, _, _)
ShlexScan(s, st, tok, has, out) ==
  IF s = <<>>
  THEN IF st # "plain" THEN "ValueError"
       ELSE IF has THEN Append(out, tok) ELSE out
  ELSE LET c == Head(s)
           r == Tail(s)
       IN CASE st = "plain" /\ c = " " ->
                 ShlexScan(r, "plain", <<>>, FALSE,
                           IF has THEN Append(out, tok) ELSE out)
            [] st = "plain" /\ c = "'" -> ShlexScan(r, "single", tok, TRUE, out)
            [] st = "plain" /\ c = "\"" -> ShlexScan(r, "double", tok, TRUE, out)
            [] st = "plain" /\ c = "\\" -> ShlexScan(r, "esc", tok, TRUE, out)
            [] st = "plain" /\ c \notin {" ", "'", "\"", "\\"} ->
                 ShlexScan(r, "plain", Append(tok, c), TRUE, out)
            [] st = "single" /\ c = "'" -> ShlexScan(r, "plain", tok, TRUE, out)
            [] st = "single" /\ c # "'" ->
                 ShlexScan(r, "single", Append(tok, c), TRUE, out)
            [] st = "double" /\ c = "\"" -> ShlexScan(r, "plain", tok, TRUE, out)
            [] st = "double" /\ c = "\\" -> ShlexScan(r, "dqesc", tok, TRUE, out)
            [] st = "double" /\ c \notin {"\"", "\\"} ->
                 ShlexScan(r, "double", Append(tok, c), TRUE, out)
            [] st = "esc" -> ShlexScan(r, "plain", Append(tok, c), TRUE, out)
            [] st = "dqesc" /\ c \in {"\"", "\\"} ->
                 ShlexScan(r, "double", Append(tok, c), TRUE, out)
            [] st = "dqesc" /\ c \notin {"\"", "\\"} ->
                 ShlexScan(r, "double", Append(Append(tok, "\\"), c), TRUE, out)

ShlexSplit(s) == ShlexScan(s, "plain", <<>>, FALSE, <<>>)

\* command_args of lines 127-130 for one object
CommandArgs(command, obj) ==
  ShlexSplit(Replace(command, PLACEHOLDER, ShlexQuote(obj)))


\* ------------------------------------------------------------------- state
VARIABLES
  pc,             \* position in __main__ / tui_main
  fileState,      \* input: the object list path is missing, unreadable or ok
  fileLines,      \* input: the raw lines of the object list file
  command,        \* input: args.command
  objects,        \* the loaded object list
  statuses,       \* the status vector
  i,              \* current index (1-based)
  h,              \* terminal height seen by the current iteration
  w,              \* terminal width seen by the current iteration
  scroll_offset,  \* first visible row of the list pane (0-based, as in source)
  keys,           \* terminal input queue: keys pressed and not yet read
  keyAt,          \* history, per waiting key: when it was pressed
  child,          \* per object: "none", "running", "terminated", "reaped"
  returncode,     \* per object: exit code observed by process.wait()
  pane,           \* lines drawn in output_content_win for the current object
  emitted,        \* history: lines readline returned for the current object
  final_message,  \* what the program prints when it ends
  uiInit,         \* history: curses.wrapper has initialised the terminal
  raised,         \* history, per object: where an exception was raised
  eos,            \* history, per object: readline returned end-of-stream
  prompts,        \* history, per object: failure prompts shown
  endShown,       \* history: the end-of-run prompt has been drawn
  endKeys,        \* history: keys read from the end-of-run prompt onwards
  abortPolled,    \* history: q/Q was returned by the poll of line 148
  exitChosen      \* history: e/E was returned by a failure prompt

vars == <<pc, fileState, fileLines, command, objects, statuses, i, h, w,
          scroll_offset, keys, keyAt, child, returncode, pane, emitted,
          final_message,
          uiInit, raised, eos, prompts, endShown, endKeys, abortPolled,
          exitChosen>>

inputs == <<fileState, fileLines, command>>
loopHist == <<raised, eos, prompts, endShown, endKeys, abortPolled, exitChosen>>

N == Len(objects)

\* Files of at most MaxObjects raw lines.
Files == UNION {[1..n -> RawLines] : n \in 0..MaxObjects}

Init ==
  /\ pc = "main_exists"
  /\ fileState \in FileStates
  /\ fileLines \in (IF fileState = "ok" THEN Files ELSE {<<>>})
  /\ command \in Commands
  /\ objects = <<>>
  /\ statuses = <<>>
  /\ i = 0
  /\ h = 0
  /\ w = 0
  /\ scroll_offset = 0
  /\ keys = <<>>
  /\ keyAt = <<>>
  /\ child = <<>>
  /\ returncode = <<>>
  /\ pane = <<>>
  /\ emitted = <<>>
  /\ final_message = NoMessage
  /\ uiInit = FALSE
  /\ raised = <<>>
  /\ eos = <<>>
  /\ prompts = <<>>
  /\ endShown = FALSE
  /\ endKeys = 0
  /\ abortPolled = FALSE
  /\ exitChosen = FALSE

\* ------------------------------------------------------------- entry point
\* Plausible fault: the existence check is skipped.
MainExists_NoCheck ==
  /\ pc = "main_exists"
  /\ pc' = "main_placeholder"
  /\ UNCHANGED <<inputs, objects, statuses, i, h, w, scroll_offset, keys, keyAt, child,
                 returncode, pane, emitted, final_message, uiInit, loopHist>>

\* if not os.path.exists(args.list): ... sys.exit(1)
MainExists ==
  /\ pc = "main_exists"
  /\ IF fileState = "missing"
     THEN /\ final_message' = MSG_NOFILE
          /\ pc' = "done"
     ELSE /\ pc' = "main_placeholder"
          /\ UNCHANGED final_message
  /\ UNCHANGED <<inputs, objects, statuses, i, h, w, scroll_offset, keys, keyAt, child,
                 returncode, pane, emitted, uiInit, loopHist>>

\* Plausible fault: the placeholder check is skipped.
MainPlaceholder_NoCheck ==
  /\ pc = "main_placeholder"
  /\ pc' = "wrapper"
  /\ UNCHANGED <<inputs, objects, statuses, i, h, w, scroll_offset, keys, keyAt, child,
                 returncode, pane, emitted, final_message, uiInit, loopHist>>

\* if PLACEHOLDER not in args.command: ... sys.exit(1)
MainPlaceholder ==
  /\ pc = "main_placeholder"
  /\ IF ~Contains(PLACEHOLDER, command)
     THEN /\ final_message' = MSG_NOPLACEHOLDER
          /\ pc' = "done"
     ELSE /\ pc' = "wrapper"
          /\ UNCHANGED final_message
  /\ UNCHANGED <<inputs, objects, statuses, i, h, w, scroll_offset, keys, keyAt, child,
                 returncode, pane, emitted, uiInit, loopHist>>

\* curses.wrapper(tui_main, args) enters curses mode, then the curses setup
\* of tui_main runs.
Wrapper ==
  /\ pc = "wrapper"
  /\ uiInit' = TRUE
  /\ pc' = "read"
  /\ UNCHANGED <<inputs, objects, statuses, i, h, w, scroll_offset, keys, keyAt, child,
                 returncode, pane, emitted, final_message, loopHist>>

\* Plausible fault: the status vector is initialised to the success symbol.
ReadList_AllSuccess ==
  /\ pc = "read"
  /\ IF fileState \in {"missing", "unreadable"} \/ ReadObjects(fileLines) = <<>>
     THEN /\ final_message' = MSG_LIST
          /\ pc' = "done"
          /\ UNCHANGED <<objects, statuses, i, child, returncode, raised, eos,
                         prompts>>
     ELSE /\ objects' = ReadObjects(fileLines)
          /\ statuses' = [k \in 1..Len(objects') |-> STATUS_SUCCESS]
          /\ child' = [k \in 1..Len(objects') |-> "none"]
          /\ returncode' = [k \in 1..Len(objects') |-> NoCode]
          /\ raised' = [k \in 1..Len(objects') |-> "none"]
          /\ eos' = [k \in 1..Len(objects') |-> FALSE]
          /\ prompts' = [k \in 1..Len(objects') |-> 0]
          /\ i' = 1
          /\ pc' = "layout"
          /\ UNCHANGED final_message
  /\ UNCHANGED <<inputs, h, w, scroll_offset, keys, keyAt, pane, emitted, uiInit, endShown,
                 endKeys, abortPolled, exitChosen>>

\* Read Objects: open and filter the list; an IOError or an empty result
\* returns the error message, otherwise the status vector is created.
ReadList ==
  /\ pc = "read"
  /\ IF fileState \in {"missing", "unreadable"} \/ ReadObjects(fileLines) = <<>>
     THEN /\ final_message' = MSG_LIST
          /\ pc' = "done"
          /\ UNCHANGED <<objects, statuses, i, child, returncode, raised, eos,
                         prompts>>
     ELSE /\ objects' = ReadObjects(fileLines)
          /\ statuses' = [k \in 1..Len(objects') |-> STATUS_PENDING]
          /\ child' = [k \in 1..Len(objects') |-> "none"]
          /\ returncode' = [k \in 1..Len(objects') |-> NoCode]
          /\ raised' = [k \in 1..Len(objects') |-> "none"]
          /\ eos' = [k \in 1..Len(objects') |-> FALSE]
          /\ prompts' = [k \in 1..Len(objects') |-> 0]
          /\ i' = 1
          /\ pc' = "layout"
          /\ UNCHANGED final_message
  /\ UNCHANGED <<inputs, h, w, scroll_offset, keys, keyAt, pane, emitted, uiInit, endShown,
                 endKeys, abortPolled, exitChosen>>

\* ---------------------------------------------------------------- tui_main
\* Plausible fault: the first visible row is placed one row too high.
AdjustScroll_OffByOne(idx, offset, visible_lines) ==
  LET o1 == IF idx >= offset + visible_lines
            THEN idx - visible_lines ELSE offset
  IN IF idx < o1 THEN idx ELSE o1

\* Adjust scroll offset to keep current item in view (idx is 0-based).
AdjustScroll(idx, offset, visible_lines) ==
  LET o1 == IF idx >= offset + visible_lines
            THEN idx - visible_lines + 1 ELSE offset
  IN IF idx < o1 THEN idx ELSE o1

\* Plausible fault: the output sub-window of the previous object is kept.
Layout_KeepPane ==
  /\ pc = "layout"
  /\ \E hh \in Heights :
       /\ h' = hh
       /\ scroll_offset' = AdjustScroll(i - 1, scroll_offset, hh - 2)
  /\ w' \in Widths
  /\ emitted' = <<>>
  /\ pc' = "build"
  /\ UNCHANGED <<inputs, objects, statuses, i, keys, keyAt, child, returncode,
                 pane, final_message, uiInit, loopHist>>

\* Window layout, scroll offset, initial draw and a fresh output sub-window.
Layout ==
  /\ pc = "layout"
  /\ \E hh \in Heights :
       /\ h' = hh
       /\ scroll_offset' = AdjustScroll(i - 1, scroll_offset, hh - 2)
  /\ w' \in Widths
  /\ pane' = <<>>
  /\ emitted' = <<>>
  /\ pc' = "build"
  /\ UNCHANGED <<inputs, objects, statuses, i, keys, keyAt, child, returncode,
                 final_message, uiInit, loopHist>>

\* quoted_obj, command_str, command_args; a ValueError of shlex.split goes to
\* the except clause.
Build ==
  /\ pc = "build"
  /\ IF CommandArgs(command, objects[i]) = "ValueError"
     THEN /\ raised' = [raised EXCEPT ![i] = "build"]
          /\ pc' = "except"
     ELSE /\ pc' = "launch"
          /\ UNCHANGED raised
  /\ UNCHANGED <<inputs, objects, statuses, i, h, w, scroll_offset, keys, keyAt, child,
                 returncode, pane, emitted, final_message, uiInit, eos, prompts,
                 endShown, endKeys, abortPolled, exitChosen>>

\* subprocess.Popen: the child starts, or OSError is raised.
Launch ==
  /\ pc = "launch"
  /\ \/ /\ child' = [child EXCEPT ![i] = "running"]
        /\ pc' = "readline"
        /\ UNCHANGED raised
     \/ /\ raised' = [raised EXCEPT ![i] = "launch"]
        /\ pc' = "except"
        /\ UNCHANGED child
  /\ UNCHANGED <<inputs, objects, statuses, i, h, w, scroll_offset, keys, keyAt,
                 returncode, pane, emitted, final_message, uiInit, eos, prompts,
                 endShown, endKeys, abortPolled, exitChosen>>

\* Plausible fault: the status is set to success at end of stream, before the
\* exit code is known.
ReadLine_MarkSuccess ==
  /\ pc = "readline"
  /\ \/ /\ eos' = [eos EXCEPT ![i] = TRUE]
        /\ pc' = "wait"
        /\ statuses' = [statuses EXCEPT ![i] = STATUS_SUCCESS]
        /\ UNCHANGED <<pane, emitted, raised>>
     \/ /\ Len(pane) < MaxLines
        /\ \E line \in {LineNames[Len(emitted) + 1], "nul"} :
             /\ emitted' = Append(emitted, line)
             /\ IF line = "nul"
                THEN /\ raised' = [raised EXCEPT ![i] = "stream"]
                     /\ pc' = "except"
                     /\ UNCHANGED pane
                ELSE /\ pane' = Append(pane, line)
                     /\ pc' = "poll"
                     /\ UNCHANGED raised
        /\ UNCHANGED <<eos, statuses>>
     \/ /\ raised' = [raised EXCEPT ![i] = "stream"]
        /\ pc' = "except"
        /\ UNCHANGED <<pane, emitted, eos, statuses>>
  /\ UNCHANGED <<inputs, objects, i, h, w, scroll_offset, keys, keyAt, child,
                 returncode, final_message, uiInit, prompts, endShown,
                 endKeys, abortPolled, exitChosen>>

\* line = process.stdout.readline(); if not line: break; draw_output(line).
\* readline can raise UnicodeDecodeError, and draw_output raises ValueError
\* on a line holding a NUL character.
ReadLine ==
  /\ pc = "readline"
  /\ \/ /\ eos' = [eos EXCEPT ![i] = TRUE]
        /\ pc' = "wait"
        /\ UNCHANGED <<pane, emitted, raised>>
     \/ /\ Len(pane) < MaxLines
        /\ \E line \in {LineNames[Len(emitted) + 1], "nul"} :
             /\ emitted' = Append(emitted, line)
             /\ IF line = "nul"
                THEN /\ raised' = [raised EXCEPT ![i] = "stream"]
                     /\ pc' = "except"
                     /\ UNCHANGED pane
                ELSE /\ pane' = Append(pane, line)
                     /\ pc' = "poll"
                     /\ UNCHANGED raised
        /\ UNCHANGED eos
     \/ /\ raised' = [raised EXCEPT ![i] = "stream"]
        /\ pc' = "except"
        /\ UNCHANGED <<pane, emitted, eos>>
  /\ UNCHANGED <<inputs, objects, statuses, i, h, w, scroll_offset, keys, keyAt, child,
                 returncode, final_message, uiInit, prompts, endShown,
                 endKeys, abortPolled, exitChosen>>

\* Plausible fault: only the lower-case key is recognised.
IsAbortKey_LowerOnly(key) == key = "q"

\* key in [ord('q'), ord('Q')]
IsAbortKey(key) == key \in {"q", "Q"}

\* key = stdscr.getch() in nodelay mode; on q/Q terminate the child and
\* return the abort message.
PollKey ==
  /\ pc = "poll"
  /\ LET key == IF keys = <<>> THEN NoKey ELSE Head(keys)
     IN /\ keys' = IF keys = <<>> THEN keys ELSE Tail(keys)
        /\ keyAt' = IF keys = <<>> THEN keyAt ELSE Tail(keyAt)
        /\ IF IsAbortKey(key)
           THEN /\ child' = [child EXCEPT ![i] = "terminated"]
                /\ final_message' = MSG_ABORT
                /\ abortPolled' = TRUE
                /\ pc' = "done"
           ELSE /\ pc' = "readline"
                /\ UNCHANGED <<child, final_message, abortPolled>>
  /\ UNCHANGED <<inputs, objects, statuses, i, h, w, scroll_offset, returncode,
                 pane, emitted, uiInit, raised, eos, prompts, endShown, endKeys,
                 exitChosen>>

\* Plausible fault: a child killed by a signal (negative code) counts as success.
Classify_NonPositive(rc) == IF rc <= 0 THEN STATUS_SUCCESS ELSE STATUS_FAIL

\* if process.returncode == 0: SUCCESS else: FAIL
Classify(rc) == IF rc = 0 THEN STATUS_SUCCESS ELSE STATUS_FAIL

\* Plausible fault: the status is written to the first slot, not slot i.
Wait_WrongSlot ==
  /\ pc = "wait"
  /\ \E rc \in ExitCodes :
       /\ returncode' = [returncode EXCEPT ![i] = {rc}]
       /\ statuses' = [statuses EXCEPT ![1] = Classify(rc)]
  /\ child' = [child EXCEPT ![i] = "reaped"]
  /\ pc' = "redraw"
  /\ UNCHANGED <<inputs, objects, i, h, w, scroll_offset, keys, keyAt, pane, emitted,
                 final_message, uiInit, loopHist>>

\* process.wait() reaps the child; the exit code decides the status.
Wait ==
  /\ pc = "wait"
  /\ \E rc \in ExitCodes :
       /\ returncode' = [returncode EXCEPT ![i] = {rc}]
       /\ statuses' = [statuses EXCEPT ![i] = Classify(rc)]
  /\ child' = [child EXCEPT ![i] = "reaped"]
  /\ pc' = "redraw"
  /\ UNCHANGED <<inputs, objects, i, h, w, scroll_offset, keys, keyAt, pane, emitted,
                 final_message, uiInit, loopHist>>

\* Plausible fault: the handler renders the error but forgets the status.
Except_NoStatus ==
  /\ pc = "except"
  /\ pane' = Append(pane, ErrorLine)
  /\ pc' = "redraw"
  /\ UNCHANGED <<emitted, inputs, objects, statuses, i, h, w, scroll_offset, keys, keyAt, child,
                 returncode, final_message, uiInit, loopHist>>

\* except Exception as e: statuses[i] = STATUS_FAIL; draw_output(error text)
Except ==
  /\ pc = "except"
  /\ statuses' = [statuses EXCEPT ![i] = STATUS_FAIL]
  /\ pane' = Append(pane, ErrorLine)
  /\ pc' = "redraw"
  /\ UNCHANGED <<emitted, inputs, objects, i, h, w, scroll_offset, keys, keyAt, child,
                 returncode, final_message, uiInit, loopHist>>

\* Plausible fault: the loop goes round again without moving on (a retry).
Advance_Retry ==
  /\ pc' = "layout"
  /\ UNCHANGED i

\* The for loop moves to the next object, or falls out of the loop.
Advance ==
  IF i < N
  THEN /\ i' = i + 1
       /\ pc' = "layout"
  ELSE /\ pc' = "end_show"
       /\ UNCHANGED i

\* Plausible fault: the prompt is drawn whatever the status is.
Redraw_AlwaysPrompt ==
  /\ pc = "redraw"
  /\ prompts' = [prompts EXCEPT ![i] = @ + 1]
  /\ pc' = "fail_prompt"
  /\ UNCHANGED <<inputs, objects, statuses, i, h, w, scroll_offset, keys, keyAt, child,
                 returncode, pane, emitted, final_message, uiInit, raised, eos,
                 endShown, endKeys, abortPolled, exitChosen>>

\* Final draw_list; a failed object gets the failure prompt drawn.
Redraw ==
  /\ pc = "redraw"
  /\ IF statuses[i] = STATUS_FAIL
     THEN /\ prompts' = [prompts EXCEPT ![i] = @ + 1]
          /\ pc' = "fail_prompt"
          /\ UNCHANGED i
     ELSE /\ Advance
          /\ UNCHANGED prompts
  /\ UNCHANGED <<inputs, objects, statuses, h, w, scroll_offset, keys, keyAt, child,
                 returncode, pane, emitted, final_message, uiInit, raised, eos,
                 endShown, endKeys, abortPolled, exitChosen>>

\* Plausible fault: only the lower-case key is recognised.
IsExitKey_LowerOnly(key) == key = "e"

\* choice in [ord('e'), ord('E')]
IsExitKey(key) == key \in {"e", "E"}

\* The blocking getch of show_prompt returns; e/E ends the run, any other
\* key goes on with the loop.
FailPrompt ==
  /\ pc = "fail_prompt"
  /\ keys # <<>>
  /\ keys' = Tail(keys)
  /\ keyAt' = Tail(keyAt)
  /\ IF IsExitKey(Head(keys))
     THEN /\ final_message' = MSG_EXIT
          /\ exitChosen' = TRUE
          /\ pc' = "done"
          /\ UNCHANGED i
     ELSE /\ Advance
          /\ UNCHANGED <<final_message, exitChosen>>
  /\ UNCHANGED <<inputs, objects, statuses, h, w, scroll_offset, child,
                 returncode, pane, emitted, uiInit, raised, eos, prompts, endShown,
                 endKeys, abortPolled>>

\* show_prompt("All jobs completed. Press any key to exit.") draws the prompt.
EndShow ==
  /\ pc = "end_show"
  /\ endShown' = TRUE
  /\ pc' = "end_prompt"
  /\ UNCHANGED <<inputs, objects, statuses, i, h, w, scroll_offset, keys, keyAt, child,
                 returncode, pane, emitted, final_message, uiInit, raised, eos,
                 prompts, endKeys, abortPolled, exitChosen>>

\* return prompt_win.getch() of the end-of-run prompt: blocks for one key.
EndPrompt ==
  /\ pc = "end_prompt"
  /\ keys # <<>>
  /\ keys' = Tail(keys)
  /\ keyAt' = Tail(keyAt)
  /\ endKeys' = endKeys + 1
  /\ pc' = "end_getch"
  /\ UNCHANGED <<inputs, objects, statuses, i, h, w, scroll_offset, child,
                 returncode, pane, emitted, final_message, uiInit, raised, eos,
                 prompts, endShown, abortPolled, exitChosen>>

\* stdscr.nodelay(False); stdscr.getch(); return the success message.
EndGetch ==
  /\ pc = "end_getch"
  /\ keys # <<>>
  /\ keys' = Tail(keys)
  /\ keyAt' = Tail(keyAt)
  /\ endKeys' = endKeys + 1
  /\ final_message' = MSG_DONE
  /\ pc' = "done"
  /\ UNCHANGED <<inputs, objects, statuses, i, h, w, scroll_offset, child,
                 returncode, pane, emitted, uiInit, raised, eos, prompts, endShown,
                 abortPolled, exitChosen>>

\* What the program is doing at a given position: running a command
\* (between Popen and the end of process.wait()) or anything else.
Phase(p) == IF p \in {"readline", "poll", "wait"} THEN "exec" ELSE "other"

\* The operator presses a key; it waits in the terminal input queue.
KeyPress ==
  /\ pc # "done"
  /\ Len(keys) < MaxKeys
  /\ \E k \in Keys : keys' = Append(keys, k)
  /\ keyAt' = Append(keyAt, [idx |-> i, at |-> Phase(pc)])
  /\ UNCHANGED <<pc, inputs, objects, statuses, i, h, w, scroll_offset, child,
                 returncode, pane, emitted, final_message, uiInit, loopHist>>

Next ==
  \/ MainExists
  \/ MainPlaceholder
  \/ Wrapper
  \/ ReadList
  \/ Layout
  \/ Build
  \/ Launch
  \/ ReadLine
  \/ PollKey
  \/ Wait
  \/ Except
  \/ Redraw
  \/ FailPrompt
  \/ EndShow
  \/ EndPrompt
  \/ EndGetch
  \/ KeyPress

Spec == Init /\ [][Next]_vars

\* Every step of the program itself: it runs whenever it is not blocked.
Program ==
  \/ MainExists
  \/ MainPlaceholder
  \/ Wrapper
  \/ ReadList
  \/ Layout
  \/ Build
  \/ Launch
  \/ ReadLine
  \/ PollKey
  \/ Wait
  \/ Except
  \/ Redraw
  \/ FailPrompt
  \/ EndShow
  \/ EndPrompt
  \/ EndGetch

\* The program is blocked in a getch that waits for a key.
Blocked == pc \in {"fail_prompt", "end_prompt", "end_getch"}

\* The program runs on whenever it can (a child's stream ends after at most
\* MaxLines lines), and a blocking read eventually receives a key.
LiveSpec ==
  /\ Spec
  /\ WF_vars(Program)
  /\ WF_vars(Blocked /\ KeyPress)


\* ---------------------------------------------------------------- draw_list
STATUS_CURRENT == "Current"

\* The text of the four status symbols, one element per character.
SymbolText(status_symbol) ==
  CASE status_symbol = STATUS_PENDING -> <<"[", " ", "]">>
    [] status_symbol = STATUS_SUCCESS -> <<"[", "v", "]">>
    [] status_symbol = STATUS_FAIL -> <<"[", "x", "]">>
    [] status_symbol = STATUS_CURRENT -> <<"[", ">", "]">>

\* Python's obj[:n]: the first n elements, or all but the last -n when n < 0.
Slice(obj, n) ==
  IF n >= 0
  THEN SubSeq(obj, 1, IF n < Len(obj) THEN n ELSE Len(obj))
  ELSE SubSeq(obj, 1, IF Len(obj) + n > 0 THEN Len(obj) + n ELSE 0)

\* Truncate object name if it's too long.
DisplayObj(obj, max_len) ==
  IF Len(obj) > max_len THEN Slice(obj, max_len) \o <<".", ".">> ELSE obj

\* f"{status_symbol} {display_obj}" for a pane of width pane_w.
RowText(status_symbol, obj, pane_w) ==
  LET max_len == pane_w - Len(SymbolText(status_symbol)) - 4
  IN SymbolText(status_symbol) \o <<" ">> \o DisplayObj(obj, max_len)

\* The rows draw_list writes, by window row; each text starts at column 2.
\* current_index is 1-based, offset is the 0-based scroll offset.
DrawList(objs, stats, current_index, offset, pane_h, pane_w) ==
  [r \in {y \in 1..(pane_h - 2) : offset + y <= Len(objs)} |->
     RowText(IF offset + r = current_index THEN STATUS_CURRENT
                                           ELSE stats[offset + r],
             objs[offset + r], pane_w)]

\* The list pane as drawn by the layout of the current iteration.
list_w == w \div 4
ListPane == DrawList(objects, statuses, i, scroll_offset, h, list_w)

\* ------------------------------------------------------ rendering, resizing
\* The loop of tui_main with the terminal resized between iterations and
\* labels of several lengths; the command of an iteration is reduced to the
\* status it leaves.  Height 2 is the smallest at which the layout of an
\* iteration succeeds.
RenderHeights == 2..5
RenderWidths == {28, 40, 80}
Label(n) == [k \in 1..n |-> "x"]
RenderLabels == {Label(2), Label(MaxLabelLen)}
RenderLists ==
  UNION {[1..n -> RenderLabels] : n \in 1..MaxRenderObjects}

RenderInit ==
  /\ pc = "layout"
  /\ fileState = "ok"
  /\ fileLines = <<>>
  /\ command = Cmd_ok
  /\ objects \in RenderLists
  /\ statuses = [k \in 1..Len(objects) |-> STATUS_PENDING]
  /\ i = 1
  /\ h = 0
  /\ w = 0
  /\ scroll_offset = 0
  /\ keys = <<>>
  /\ keyAt = <<>>
  /\ child = [k \in 1..Len(objects) |-> "none"]
  /\ returncode = [k \in 1..Len(objects) |-> NoCode]
  /\ pane = <<>>
  /\ emitted = <<>>
  /\ final_message = NoMessage
  /\ uiInit = TRUE
  /\ raised = [k \in 1..Len(objects) |-> "none"]
  /\ eos = [k \in 1..Len(objects) |-> FALSE]
  /\ prompts = [k \in 1..Len(objects) |-> 0]
  /\ endShown = FALSE
  /\ endKeys = 0
  /\ abortPolled = FALSE
  /\ exitChosen = FALSE

\* Window layout and scroll adjustment at the size the terminal has now.
RenderLayout ==
  /\ pc = "layout"
  /\ \E hh \in RenderHeights, ww \in RenderWidths :
       /\ h' = hh
       /\ w' = ww
       /\ scroll_offset' = AdjustScroll(i - 1, scroll_offset, hh - 2)
  /\ pane' = <<>>
  /\ emitted' = <<>>
  /\ pc' = "build"
  /\ UNCHANGED <<inputs, objects, statuses, i, keys, keyAt, child, returncode,
                 final_message, uiInit, loopHist>>

\* The command of object i ends in success or failure and the loop moves on.
RenderExecute ==
  /\ pc = "build"
  /\ \E st \in {STATUS_SUCCESS, STATUS_FAIL} :
       statuses' = [statuses EXCEPT ![i] = st]
  /\ IF i < N
     THEN /\ i' = i + 1
          /\ pc' = "layout"
          /\ UNCHANGED final_message
     ELSE /\ pc' = "done"
          /\ final_message' = MSG_DONE
          /\ UNCHANGED i
  /\ UNCHANGED <<inputs, objects, h, w, scroll_offset, keys, keyAt, child,
                 returncode, pane, emitted, uiInit, loopHist>>

RenderNext ==
  \/ RenderLayout
  \/ RenderExecute

RenderSpec == RenderInit /\ [][RenderNext]_vars

\* ------------------------------------------------------------- vocabulary
Terminal == {STATUS_SUCCESS, STATUS_FAIL}

InLoop == statuses # <<>>

\* The for loop has fallen through: every iteration is over.
LoopOver == pc \in {"end_show", "end_prompt", "end_getch"}
              \/ (pc = "done" /\ final_message = MSG_DONE)

\* Iteration j is over: the loop moved on, or the run returned from it.
IterationOver(j) == InLoop /\ (j < i \/ LoopOver \/ (j = i /\ pc = "done"))

\* Iteration j is past the point where the failure prompt is drawn.
PastRedraw(j) ==
  InLoop /\ (j < i \/ LoopOver
               \/ (j = i /\ pc = "fail_prompt")
               \/ (j = i /\ pc = "done" /\ final_message = MSG_EXIT))

\* A step of the program itself (not a keypress) leaving position p.
Leaves(p) == pc = p /\ pc' # p

BadList ==
  fileState = "unreadable" \/ (fileState = "ok" /\ ReadObjects(fileLines) = <<>>)

\* --------------------------------------------------------------------- C1
\* A status only ever changes from Pending to Success or Failed.
C1_Step ==
  \A j \in DOMAIN statuses :
    statuses'[j] # statuses[j] =>
      statuses[j] = STATUS_PENDING /\ statuses'[j] \in Terminal

\* Objects before the current index have reached Success or Failed.
C1_Before ==
  pc = "done" /\ InLoop => \A j \in 1..(i - 1) : statuses[j] \in Terminal

\* C1 as stated: every status changes exactly once, from Pending to Success
\* or Failed, and never again, except that the objects at or after the index
\* of a user abort or of an exit-on-failure stay Pending.
C1_Original ==
  /\ [][C1_Step]_vars
  /\ [](C1_Before)
  /\ [](pc = "done" /\ final_message \in {MSG_ABORT, MSG_EXIT} =>
          \A j \in i..N : statuses[j] = STATUS_PENDING)

\* C1 amended: every status changes at most once, from Pending to Success or
\* Failed, and never again; when the run has ended, every object before the
\* index where it ended is Success or Failed, the objects at or after the
\* index of a user abort are Pending, the object at the index of an
\* exit-on-failure is Failed and the objects after it are Pending.
C1_StatusOnce ==
  /\ [][C1_Step]_vars
  /\ [](C1_Before)
  /\ [](pc = "done" /\ final_message = MSG_DONE =>
          \A j \in 1..N : statuses[j] \in Terminal)
  /\ [](pc = "done" /\ final_message = MSG_ABORT =>
          \A j \in i..N : statuses[j] = STATUS_PENDING)
  /\ [](pc = "done" /\ final_message = MSG_EXIT =>
          /\ statuses[i] = STATUS_FAIL
          /\ \A j \in (i + 1)..N : statuses[j] = STATUS_PENDING)

C1_Witness ==
  /\ pc = "done"
  /\ final_message = MSG_EXIT
  /\ N = 2
  /\ i = 1
  /\ statuses = <<STATUS_FAIL, STATUS_PENDING>>

\* --------------------------------------------------------------------- C2
\* C2: a classified object is Success exactly when its child was launched,
\* its stream reached end-of-stream and its exit code is 0; a nonzero exit
\* code and a launch failure give Failed.
C2_Classification ==
  \A j \in DOMAIN statuses :
    /\ statuses[j] # STATUS_PENDING =>
         (statuses[j] = STATUS_SUCCESS <=>
            child[j] # "none" /\ eos[j] /\ returncode[j] = {0})
    /\ returncode[j] \notin {NoCode, {0}} => statuses[j] = STATUS_FAIL
    /\ raised[j] = "launch" /\ IterationOver(j) => statuses[j] = STATUS_FAIL

C2_Witness ==
  /\ InLoop
  /\ N = 2
  /\ statuses[1] = STATUS_FAIL
  /\ returncode[1] = {-15}
  /\ statuses[2] = STATUS_SUCCESS
  /\ returncode[2] = {0}

\* --------------------------------------------------------------------- C3
\* C3: when an iteration is over (the next object starts or the run
\* returns), the child it launched, if any, has been reaped.
C3_Reaped ==
  \A j \in DOMAIN child : IterationOver(j) => child[j] \in {"none", "reaped"}

\* --------------------------------------------------------------------- C4
\* The poll of line 148 returns q or Q.
C4_AbortStep ==
  Leaves("poll") /\ keys # <<>> /\ Head(keys) \in {"q", "Q"}

\* C4: when q or Q is polled while object i runs, the child is sent a
\* termination request, the run ends at once with the abort message,
\* status[i] is still Pending, the later objects stay Pending, no further
\* child is launched and no failure prompt is shown.
C4_Abort ==
  /\ [][C4_AbortStep =>
          /\ child'[i] = "terminated"
          /\ pc' = "done"
          /\ final_message' = MSG_ABORT
          /\ statuses' = statuses
          /\ prompts' = prompts
          /\ i' = i]_vars
  /\ [](pc = "done" /\ final_message = MSG_ABORT =>
          /\ child[i] = "terminated"
          /\ prompts[i] = 0
          /\ \A j \in i..N : statuses[j] = STATUS_PENDING
          /\ \A j \in (i + 1)..N : child[j] = "none" /\ prompts[j] = 0)
  /\ [][pc = "done" => pc' = "done"]_vars

C4_Witness ==
  /\ pc = "done"
  /\ final_message = MSG_ABORT
  /\ i = 1
  /\ N = 2
  /\ child = <<"terminated", "none">>

\* --------------------------------------------------------------------- C5
\* The failure prompt returns e or E.
C5_ExitStep ==
  Leaves("fail_prompt") /\ keys # <<>> /\ Head(keys) \in {"e", "E"}

\* C5: when e or E is chosen at the failure prompt of object i, the run ends
\* with the exit-on-failure message, status[i] stays Failed and every later
\* object is left Pending with no child launched for it.
C5_Exit ==
  /\ [][C5_ExitStep =>
          /\ pc' = "done"
          /\ final_message' = MSG_EXIT
          /\ statuses' = statuses
          /\ child' = child
          /\ i' = i]_vars
  /\ [](pc = "done" /\ final_message = MSG_EXIT =>
          /\ statuses[i] = STATUS_FAIL
          /\ \A j \in (i + 1)..N :
               statuses[j] = STATUS_PENDING /\ child[j] = "none")

C5_Witness ==
  /\ pc = "done"
  /\ final_message = MSG_EXIT
  /\ exitChosen
  /\ i = 1
  /\ N = 2
  /\ child[2] = "none"
  /\ returncode[1] = {1}

\* --------------------------------------------------------------------- C6
\* The failure prompt returns a key other than e and E.
C6_SkipStep ==
  Leaves("fail_prompt") /\ keys # <<>> /\ Head(keys) \notin {"e", "E"}

\* C6: the failure prompt is shown exactly once for each object that became
\* Failed and never for one that became Success; a key other than e/E at the
\* prompt goes on with the next object, or leaves the loop after the last
\* one, and changes no status.
C6_Prompt ==
  /\ [](\A j \in DOMAIN prompts :
          /\ prompts[j] <= 1
          /\ prompts[j] = 1 => statuses[j] = STATUS_FAIL
          /\ PastRedraw(j) => (prompts[j] = 1 <=> statuses[j] = STATUS_FAIL))
  /\ [][C6_SkipStep =>
          /\ statuses' = statuses
          /\ final_message' = NoMessage
          /\ IF i < N THEN i' = i + 1 /\ pc' = "layout"
                      ELSE i' = i /\ pc' = "end_show"]_vars

C6_Witness ==
  /\ InLoop
  /\ N = 2
  /\ i = 2
  /\ pc = "end_show"
  /\ statuses = <<STATUS_FAIL, STATUS_SUCCESS>>
  /\ prompts = <<1, 0>>

\* --------------------------------------------------------------------- C7
\* C7: an exception raised while building the argument vector, launching the
\* child or streaming its output goes to the handler of the same iteration:
\* status[i] becomes Failed, the error line is drawn in the output pane, the
\* failure prompt for i follows, and the exception itself does not end the
\* run.
C7_Absorbed ==
  /\ [][raised' # raised /\ raised # <<>> =>
          pc' = "except" /\ i' = i /\ final_message' = NoMessage]_vars
  /\ [][Leaves("except") =>
          /\ statuses'[i] = STATUS_FAIL
          /\ pane' = Append(pane, ErrorLine)
          /\ pc' = "redraw"
          /\ i' = i]_vars
  /\ [][Leaves("redraw") /\ raised[i] # "none" =>
          pc' = "fail_prompt" /\ i' = i /\ prompts'[i] = 1]_vars
  /\ [](\A j \in DOMAIN raised :
          raised[j] # "none" /\ PastRedraw(j) =>
            statuses[j] = STATUS_FAIL /\ prompts[j] = 1)

C7_Witness ==
  /\ InLoop
  /\ N = 2
  /\ i = 2
  /\ raised[1] = "stream"
  /\ statuses[1] = STATUS_FAIL
  /\ prompts[1] = 1
  /\ raised[2] = "launch"
  /\ pc = "fail_prompt"
  /\ pane = <<ErrorLine>>

\* --------------------------------------------------------------------- C8
\* The success message is returned exactly when every object was processed,
\* no abort key was polled and no e/E was chosen at a failure prompt.
C8_Iff ==
  pc = "done" /\ InLoop =>
    (final_message = MSG_DONE <=>
       /\ \A j \in 1..N : statuses[j] \in Terminal
       /\ ~abortPolled
       /\ ~exitChosen)

\* The end-of-run prompt is drawn before the success message is returned.
C8_Shown == final_message = MSG_DONE => endShown

\* One keypress is read between drawing the end-of-run prompt and returning.
C8_OneKey == final_message = MSG_DONE => endKeys = 1

\* C8: the run returns the success message exactly when every object was
\* processed, no abort key was polled and no e/E was chosen; before
\* returning, the end-of-run prompt is shown, it blocks for exactly one
\* keypress and any single key dismisses it.
C8_Completed == C8_Iff /\ C8_Shown /\ C8_OneKey

C10_NoPlaceholder ==
  command = Cmd_none =>
    /\ ~uiInit
    /\ ~InLoop
    /\ child = <<>>
    /\ pc \in {"main_exists", "main_placeholder", "done"}
    /\ pc = "done" => final_message \in {MSG_NOFILE, MSG_NOPLACEHOLDER}

C10_Witness ==
  /\ pc = "done"
  /\ final_message = MSG_NOPLACEHOLDER
  /\ command = Cmd_none
  /\ Len(ReadObjects(fileLines)) = 2


\* -------------------------------------------------------------------- C11
\* A child starts running.
C11_LaunchStep(j) == child[j] # "running" /\ child'[j] = "running"

\* C11: when every child's stream ends and every blocking read receives a
\* key, a run that entered the loop ends, with one of the three run outcomes;
\* a child is launched only for the current object and only if none was
\* launched for it before.
C11_Terminates ==
  /\ InLoop ~> (pc = "done")
  /\ [](pc = "done" /\ InLoop =>
          final_message \in {MSG_DONE, MSG_ABORT, MSG_EXIT})
  /\ [][\A j \in DOMAIN child :
          C11_LaunchStep(j) => j = i /\ child[j] = "none"]_vars

C11_Witness ==
  /\ pc = "done"
  /\ final_message = MSG_DONE
  /\ N = 2
  /\ child = <<"reaped", "reaped">>
  /\ endKeys = 2


\* -------------------------------------------------------------------- C12
\* A blocking read of a prompt (failure prompt, end-of-run prompt and the
\* read that follows it) returns.
C12_PromptRead ==
  Leaves("fail_prompt") \/ Leaves("end_prompt") \/ Leaves("end_getch")

\* C12: a key other than q/Q pressed while a command runs has no effect: it
\* changes no status and does not abort when it is polled, and no prompt
\* ever takes it as its answer (a prompt's answer is a key pressed after the
\* command has ended).
C12_RunKeysIgnored ==
  /\ [][Leaves("poll") /\ keys # <<>> /\ Head(keys) \notin {"q", "Q"} =>
          statuses' = statuses /\ pc' = "readline"
            /\ final_message' = NoMessage]_vars
  /\ [][C12_PromptRead => Head(keyAt).at # "exec"]_vars

\* -------------------------------------------------------------------- C13
\* C13: the abort key is polled once after each line that was read and
\* drawn, before the next read, and at no other time (never before the first
\* line, never after end-of-stream); the q/Q that aborts object i was pressed
\* during object i.
C13_PollPerLine ==
  /\ [][Leaves("readline") =>
          IF pane' # pane THEN pc' = "poll" ELSE pc' \in {"wait", "except"}]_vars
  /\ [][Leaves("poll") => pc' \in {"readline", "done"}]_vars
  /\ [][~Blocked /\ keys' # keys /\ Len(keys') < Len(keys) => pc = "poll"]_vars
  /\ [](pc = "poll" => Len(pane) >= 1)
  /\ [][Leaves("poll") /\ pc' = "done" /\ Head(keyAt).idx >= 1 =>
          Head(keyAt).idx = i]_vars


\* -------------------------------------------------------------------- C14
\* Children that exist: launched and not reaped.
C14_Live == {j \in DOMAIN child : child[j] \in {"running", "terminated"}}

\* C14: the current index only increases; each object is launched at most
\* once; when object i is being attempted every earlier object is Success or
\* Failed, and a Failed one had its prompt answered; at most one child
\* process exists at any time.
C14_InOrder ==
  /\ [][i' >= i]_vars
  /\ [][\A j \in DOMAIN child :
          C11_LaunchStep(j) => j = i /\ child[j] = "none"]_vars
  /\ [](\A k \in 1..(i - 1) :
          /\ statuses[k] \in Terminal
          /\ statuses[k] = STATUS_FAIL => prompts[k] = 1)
  /\ [](Cardinality(C14_Live) <= 1)

\* -------------------------------------------------------------------- C15
\* Steps that only render: the layout with its draw_list and draw_title, a
\* readline with its draw_output, and the drawing of the end-of-run prompt.
C15_RenderStep ==
  Leaves("layout") \/ Leaves("readline") \/ Leaves("end_show")

\* C15: a step of iteration i changes the status vector at slot i only, and
\* only in the classification or in the exception handler; the steps that
\* render leave the status vector, the object list and the current index
\* alone, and the object list never changes once it is loaded.
C15_Frame ==
  /\ [][InLoop =>
          /\ \A j \in DOMAIN statuses : j # i => statuses'[j] = statuses[j]
          /\ statuses' # statuses => pc \in {"wait", "except"}
          /\ objects' = objects]_vars
  /\ [][C15_RenderStep =>
          statuses' = statuses /\ objects' = objects /\ i' = i]_vars
  /\ [][Leaves("redraw") => statuses' = statuses /\ objects' = objects]_vars

C15_Witness ==
  /\ InLoop
  /\ N = 2
  /\ i = 2
  /\ pc = "redraw"
  /\ statuses = <<STATUS_SUCCESS, STATUS_FAIL>>
  /\ raised[2] = "none"

\* -------------------------------------------------------------------- C18
\* The current object's command is running, or was aborted.
C18_Streaming ==
  pc \in {"readline", "poll", "wait"}
    \/ (pc = "done" /\ final_message = MSG_ABORT)

\* C18: while an object's command runs, up to end-of-stream or abort, the
\* output pane holds exactly the lines read from the child, each once and in
\* the order read; a line is added at the end and nothing else changes; the
\* pane is empty when the object's command starts.
C18_PaneIsOutput ==
  /\ [](C18_Streaming =>
          /\ pane = emitted
          /\ pane = [k \in 1..Len(pane) |-> LineNames[k]])
  /\ [][pc # "layout" /\ pane' # pane =>
          \E line \in Lines \cup {ErrorLine} : pane' = Append(pane, line)]_vars
  /\ [](pc \in {"build", "launch"} => pane = <<>>)

C18_Witness ==
  /\ pc = "wait"
  /\ i = 2
  /\ pane = <<"l1", "l2">>
  /\ emitted = <<"l1", "l2">>
  /\ raised[1] = "stream"

\* -------------------------------------------------------------------- C19
\* C19: the status vector is as long as the object list; every entry is
\* Pending, Success or Failed; every object before the current index is
\* Success or Failed and every object after it is Pending; when the run
\* returns the success message no entry is Pending.
C19_Prefix ==
  /\ Len(statuses) = Len(objects)
  /\ \A j \in DOMAIN statuses :
       /\ statuses[j] \in {STATUS_PENDING, STATUS_SUCCESS, STATUS_FAIL}
       /\ j < i => statuses[j] \in Terminal
       /\ j > i => statuses[j] = STATUS_PENDING
  /\ final_message = MSG_DONE =>
       \A j \in DOMAIN statuses : statuses[j] # STATUS_PENDING

C19_Witness ==
  /\ InLoop
  /\ N = 2
  /\ i = 2
  /\ pc = "poll"
  /\ statuses = <<STATUS_FAIL, STATUS_PENDING>>


\* -------------------------------------------------------------------- C16
\* The state right after the scroll-offset recomputation and draw_list.
C16_Laid == pc = "build"

\* C16 as stated: for any terminal height the current index is inside the
\* visible window, scroll_offset <= i < scroll_offset + visible_lines.
C16_Original ==
  C16_Laid =>
    /\ scroll_offset >= 0
    /\ scroll_offset <= i - 1
    /\ i - 1 < scroll_offset + (h - 2)

\* C16: after the recomputation the scroll offset is never negative and never
\* past the current index; when the list pane has at least one visible line
\* the current index is inside the visible window and draw_list draws its
\* row; with no visible line the offset is the current index.
C16_InView ==
  C16_Laid =>
    /\ scroll_offset >= 0
    /\ scroll_offset <= i - 1
    /\ h - 2 >= 1 =>
         /\ i - 1 < scroll_offset + (h - 2)
         /\ i - scroll_offset \in DOMAIN ListPane
    /\ h - 2 = 0 => scroll_offset = i - 1

C16_Witness ==
  /\ C16_Laid
  /\ i = 3
  /\ h = 3
  /\ scroll_offset = 2

\* -------------------------------------------------------------------- C17
\* C17: every row text drawn by draw_list, starting at column 2, ends before
\* the right border of the list pane: 2 + len(row text) <= w - 1.
C17_Fits ==
  C16_Laid =>
    \A r \in DOMAIN ListPane : 2 + Len(ListPane[r]) <= list_w - 1

====
